---- MODULE Spec2Model ----
(***************************************************************************)
(* A model of the tutorial projects of cwn-django-and-rest-guide:          *)
(*   - DjangoSignals/myApp: the Book table, the three views routed in      *)
(*     urls.py and the signal handlers of signals.py;                      *)
(*   - the form views of formsApp and forms_app;                           *)
(*   - the three setup_logger helpers;                                     *)
(*   - the Author/Book and Post/Tag tables with their cascade keys and the *)
(*     annotation query of PracticeQueriesView.                            *)
(* Text is a sequence of one-character strings, so that length limits and  *)
(* the case-insensitive substring lookup are computed, not assumed.        *)
(***************************************************************************)
EXTENDS Integers, Sequences, FiniteSets, TLC

VARIABLES
    project,    \* which of the tutorial projects this server process runs
    loggers,    \* the process's logging registry: name -> logger
    authors,    \* the Author table of orm_app or formsApp
    orm_books,  \* the Book table of orm_app or formsApp: rows [id, title, author]
    posts,      \* the Post table of admin_app
    tags,       \* the Tag table of admin_app: rows [id, name, post]
    seq,        \* the next key of each of those four tables
    annotated,  \* history: the rows the last annotation query produced
    books,      \* myApp_book: the set of stored rows [id, name, author, detail]
    nextId,     \* the next value of the table's AUTOINCREMENT key
    saved,      \* history: ids of the rows whose last write was a Model.save
    submitted,  \* history: the names callers have passed to Model.save so far
    log,        \* the lines the loggers wrote while handling the last request
    trace,      \* history: handler calls and row writes of the last request, in order
    response,   \* what the view handling the last request returned
    last,       \* history: the last request and the table it found
    inflight    \* per worker: the delete request it is in the middle of

vars == <<project, loggers, authors, orm_books, posts, tags, seq, annotated,
          books, nextId, saved, submitted, log, trace, response, last,
          inflight>>

orm_vars == <<authors, orm_books, posts, tags, seq, annotated>>

----------------------------------------------------------------------------
(* Bounds *)

\* Keys the Book table may hand out.
MaxId == 3
\* Rows stored before the first request.
MaxInit == 2
\* Handlers one logger may collect.
MaxHandlers == 3
\* Keys the Author and Post tables may hand out.
MaxParents == 2
\* Keys the orm Book and Tag tables may hand out.
MaxChildren == 3

----------------------------------------------------------------------------
(* Text *)

UpperCase ==
    <<"A","B","C","D","E","F","G","H","I","J","K","L","M",
      "N","O","P","Q","R","S","T","U","V","W","X","Y","Z">>

LowerCase ==
    <<"a","b","c","d","e","f","g","h","i","j","k","l","m",
      "n","o","p","q","r","s","t","u","v","w","x","y","z">>

\* One character folded to lower case; anything but A..Z is left alone.
lower_char(ch) ==
    IF \E i \in DOMAIN UpperCase : UpperCase[i] = ch
    THEN LowerCase[CHOOSE i \in DOMAIN UpperCase : UpperCase[i] = ch]
    ELSE ch

lower(s) == [i \in DOMAIN s |-> lower_char(s[i])]

\* needle occurs in hay as a contiguous run.
contains(hay, needle) ==
    \E i \in 0..(Len(hay) - Len(needle)) :
        SubSeq(hay, i + 1, i + Len(needle)) = needle

\* The name__icontains lookup: substring test after folding both sides.
icontains(hay, needle) == contains(lower(hay), lower(needle))

\* n copies of ch.
Rep(ch, n) == [i \in 1..n |-> ch]

Empty == << >>
CorruptedData == <<"C","o","r","r","u","p","t","e","d"," ","D","a","t","a">>
Dune == <<"D","u","n","e">>
DATA == <<"D","A","T","A">>
Herbert == <<"H","e","r","b","e","r","t">>
Asimov == <<"A","s","i","m","o","v">>
Sand == <<"s","a","n","d">>

----------------------------------------------------------------------------
(* myApp.models.Book *)

\* The key of an instance that has no row yet (pk is None).
NoId == 0

NameMaxLength == 50
AuthorMaxLength == 20

Book(id, name, author, detail) ==
    [id |-> id, name |-> name, author |-> author, detail |-> detail]

Ids(table) == {r.id : r \in table}

\* The rows of a set as a sequence in key order.
RECURSIVE ById(_)
ById(table) ==
    IF table = {} THEN << >>
    ELSE LET r == CHOOSE x \in table : \A y \in table : x.id <= y.id
         IN <<r>> \o ById(table \ {r})

----------------------------------------------------------------------------
(* utils.loggers: the lines a configured logger lets through *)

LevelNo == [NOTSET |-> 0, DEBUG |-> 10, INFO |-> 20, WARNING |-> 30, ERROR |-> 40]

\* setup_logger(name) sets the logger to its default level, logging.INFO.
LoggerLevel == "INFO"

Line(level, logger, msg, name, author, ids) ==
    [level |-> level, logger |-> logger, msg |-> msg,
     name |-> name, author |-> author, ids |-> ids]

\* logger.<level>(msg): the line is written when the level passes the logger's.
Emit(lg, line) ==
    IF LevelNo[line.level] >= LevelNo[LoggerLevel] THEN Append(lg, line) ELSE lg

Event(ev, id) == [ev |-> ev, id |-> id]

----------------------------------------------------------------------------
(* Responses *)

NoForm == [bound |-> FALSE, errors |-> {}]

HttpResponse(body) ==
    [kind |-> "HttpResponse", status |-> 200, body |-> body,
     template |-> "", form |-> NoForm, rows |-> {}]

render(template, form, rows) ==
    [kind |-> "render", status |-> 200, body |-> "",
     template |-> template, form |-> form, rows |-> rows]

\* A view that falls off its end returns None.
None ==
    [kind |-> "None", status |-> 0, body |-> "",
     template |-> "", form |-> NoForm, rows |-> {}]

----------------------------------------------------------------------------
(* The state one request works on: the table, the log, the instance in hand *)

Ctx(b, n, s) ==
    [books |-> b, nextId |-> n, saved |-> s, submitted |-> {},
     log |-> << >>, trace |-> << >>,
     instance |-> Book(NoId, Empty, Empty, Empty), created |-> FALSE,
     response |-> None]

----------------------------------------------------------------------------
(* myApp.signals *)

\* A handler that overwrites the author as well as the name.
update_information_author(c) ==
    [c EXCEPT
        !.log = Emit(@, Line("INFO", "myApp.signals",
                    "Pre save signal received and updating the actual data.",
                    Empty, Empty, {})),
        !.trace = Append(@, Event("update_information", c.instance.id)),
        !.instance = [@ EXCEPT !.name = CorruptedData, !.author = CorruptedData]]

update_information(c) ==
    [c EXCEPT
        !.log = Emit(@, Line("INFO", "myApp.signals",
                    "Pre save signal received and updating the actual data.",
                    Empty, Empty, {})),
        !.trace = Append(@, Event("update_information", c.instance.id)),
        !.instance = [@ EXCEPT !.name = CorruptedData]]

\* The post-save handler with its two branches exchanged.
information_message_swapped(c) ==
    LET c1 == [c EXCEPT !.log = Emit(@, Line("INFO", "myApp.signals",
                    "Singal is triggered........", Empty, Empty, {}))]
    IN [c1 EXCEPT
        !.log = Emit(@, Line("INFO", "myApp.signals",
                    IF c.created THEN "New Book Updated" ELSE "New Book Added",
                    c.instance.name, c.instance.author, {})),
        !.trace = Append(@, Event("information_message", c.instance.id))]

information_message(c) ==
    LET c1 == [c EXCEPT !.log = Emit(@, Line("INFO", "myApp.signals",
                    "Singal is triggered........", Empty, Empty, {}))]
    IN [c1 EXCEPT
        !.log = Emit(@, Line("INFO", "myApp.signals",
                    IF c.created THEN "New Book Added" ELSE "New Book Updated",
                    c.instance.name, c.instance.author, {})),
        !.trace = Append(@, Event("information_message", c.instance.id))]

pre_delete_signal(c) ==
    [c EXCEPT
        !.log = Emit(@, Line("WARNING", "myApp.signals",
                    "The request for deleting all books containing following name",
                    c.instance.name, Empty, {})),
        !.trace = Append(@, Event("pre_delete_signal", c.instance.id))]

\* The registry when ready() does not import myApp.signals: nothing connected.
Receivers_not_imported ==
    [pre_save |-> << >>, post_save |-> << >>, pre_delete |-> << >>, post_delete |-> << >>]

\* The registry with pre_delete_signal connected to post_delete instead.
Receivers_post_delete ==
    [pre_save |-> <<"update_information">>,
     post_save |-> <<"information_message">>,
     pre_delete |-> << >>,
     post_delete |-> <<"pre_delete_signal">>]

\* The receivers connected for sender Book once MyappConfig.ready has
\* imported myApp.signals: two by @receiver, one by post_save.connect.
Receivers ==
    [pre_save |-> <<"update_information">>,
     post_save |-> <<"information_message">>,
     pre_delete |-> <<"pre_delete_signal">>,
     post_delete |-> << >>]

receive(h, c) ==
    CASE h = "update_information" -> update_information(c)
      [] h = "information_message" -> information_message(c)
      [] h = "pre_delete_signal" -> pre_delete_signal(c)

\* signal.send(sender=Book, instance=...): every connected receiver, in order.
RECURSIVE send_from(_, _, _)
send_from(hs, i, c) ==
    IF i > Len(hs) THEN c ELSE send_from(hs, i + 1, receive(hs[i], c))

send(signal, c) == send_from(Receivers[signal], 1, c)

----------------------------------------------------------------------------
(* Model.save and QuerySet.delete as Book inherits them *)

\* The row write of a save: UPDATE when the key names a stored row, else INSERT.
save_table(c) ==
    IF c.instance.id # NoId /\ c.instance.id \in Ids(c.books)
    THEN [c EXCEPT
            !.books = {r \in @ : r.id # c.instance.id} \cup {c.instance},
            !.saved = @ \cup {c.instance.id},
            !.trace = Append(@, Event("UPDATE", c.instance.id)),
            !.created = FALSE]
    ELSE LET id == IF c.instance.id = NoId THEN c.nextId ELSE c.instance.id
             row == [c.instance EXCEPT !.id = id]
         IN [c EXCEPT
                !.books = @ \cup {row},
                !.nextId = IF id >= @ THEN id + 1 ELSE @,
                !.saved = @ \cup {id},
                !.trace = Append(@, Event("INSERT", id)),
                !.instance = row,
                !.created = TRUE]

\* instance.save(): pre_save receivers, the row write, post_save receivers.
Book_save(c, instance) ==
    send("post_save", save_table(send("pre_save",
        [c EXCEPT !.instance = instance, !.submitted = @ \cup {instance.name}])))

\* The filter with the case-sensitive lookup name__contains.
Book_objects_filter_contains(table, name) == {r \in table : contains(r.name, name)}

\* Book.objects.filter(name__icontains=name), evaluated against the table.
Book_objects_filter(table, name) == {r \in table : icontains(r.name, name)}

RECURSIVE send_each(_, _, _, _)
send_each(signal, rows, i, c) ==
    IF i > Len(rows) THEN c
    ELSE send_each(signal, rows, i + 1, send(signal, [c EXCEPT !.instance = rows[i]]))

\* A removal that stops after the first row of the batch.
delete_batch_first(rows, i, c) ==
    IF i > Len(rows) THEN c
    ELSE [c EXCEPT !.books = {r \in @ : r.id # rows[i].id},
                   !.saved = @ \ {rows[i].id},
                   !.trace = Append(@, Event("DELETE", rows[i].id))]

RECURSIVE delete_batch(_, _, _)
delete_batch(rows, i, c) ==
    IF i > Len(rows) THEN c
    ELSE delete_batch(rows, i + 1,
            [c EXCEPT !.books = {r \in @ : r.id # rows[i].id},
                      !.saved = @ \ {rows[i].id},
                      !.trace = Append(@, Event("DELETE", rows[i].id))])

\* books.delete(): the query runs again, pre_delete is sent for every row it
\* finds, the rows are removed, then post_delete is sent for each.
QuerySet_delete(c, name) ==
    LET rows == ById(Book_objects_filter(c.books, name))
    IN send_each("post_delete", rows, 1,
            delete_batch(rows, 1, send_each("pre_delete", rows, 1, c)))

----------------------------------------------------------------------------
(* Form input: POST data is a record of texts, one per field *)

Methods == {"GET", "POST", "PUT"}

BookPost(name, author, detail) == [name |-> name, author |-> author, detail |-> detail]

NoPost == BookPost(Empty, Empty, Empty)

\* What the model submits to save_book: a name the caller chose, an author
\* within or over the column's length, a detail given or left out.
BookPosts ==
    {NoPost} \cup
    {BookPost(n, a, d) :
        n \in {Dune, DATA, Empty},
        a \in {Herbert, Rep("a", AuthorMaxLength + 1)},
        d \in {Sand, Empty}}

\* BookForm, the ModelForm over Book: every field is required, name and
\* author are limited to their column's max_length.
BookForm_errors(post) ==
    {f \in {"name", "author", "detail"} : post[f] = Empty}
    \cup (IF Len(post.name) > NameMaxLength THEN {"name"} ELSE {})
    \cup (IF Len(post.author) > AuthorMaxLength THEN {"author"} ELSE {})

BookForm(post) == [bound |-> TRUE, errors |-> BookForm_errors(post)]

\* form.save() builds the unsaved instance from the cleaned data.
BookForm_instance(post) == Book(NoId, post.name, post.author, post.detail)

----------------------------------------------------------------------------
(* myApp.views *)

get_all_books_data(c, method) ==
    IF method = "GET"
    THEN [c EXCEPT !.response = render("myApp/BooksList.html", NoForm, c.books)]
    ELSE [c EXCEPT !.response = None]

\* save_book without the is_valid() test before form.save().
save_book_unchecked(c, method, post) ==
    IF method = "POST"
    THEN LET c1 == Book_save(c, BookForm_instance(post))
         IN [c1 EXCEPT
                !.log = Emit(@, Line("INFO", "myApp.views",
                            "Form data saved successfully", Empty, Empty, {})),
                !.response = HttpResponse("FORM DATA SAVED")]
    ELSE [c EXCEPT !.response = render("myApp/book.html", NoForm, {})]

save_book(c, method, post) ==
    IF method = "POST"
    THEN LET form == BookForm(post)
         IN IF form.errors = {}
            THEN LET c1 == Book_save(c, BookForm_instance(post))
                 IN [c1 EXCEPT
                        !.log = Emit(@, Line("INFO", "myApp.views",
                                    "Form data saved successfully", Empty, Empty, {})),
                        !.response = HttpResponse("FORM DATA SAVED")]
            ELSE [c EXCEPT !.response = render("myApp/book.html", form, {})]
    ELSE [c EXCEPT !.response = render("myApp/book.html", NoForm, {})]

\* delete_books_by_name answering 404 when nothing matched.
delete_books_by_name_404(c, name) ==
    LET matched == Book_objects_filter(c.books, name)
        c1 == [c EXCEPT !.log = Emit(@, Line("INFO", "myApp.views",
                    "Books to be deleted", name, Empty, {}))]
        c2 == [c1 EXCEPT !.log = Emit(@, Line("INFO", "myApp.views",
                    "All books matching given name", Empty, Empty, Ids(matched)))]
        c4 == QuerySet_delete(c2, name)
    IN IF Cardinality(matched) = 0
       THEN [c4 EXCEPT !.response =
                [HttpResponse("No books with given name found...") EXCEPT !.status = 404]]
       ELSE [c4 EXCEPT !.response = HttpResponse("All the requested books deleted")]

\* Lines 45-47: the name is logged, the lazy queryset is built and its repr
\* is logged; the repr runs the query on a clone and caches nothing.
delete_books_by_name_repr(c, name) ==
    LET matched == Book_objects_filter(c.books, name)
        c1 == [c EXCEPT !.log = Emit(@, Line("INFO", "myApp.views",
                    "Books to be deleted", name, Empty, {}))]
    IN [c1 EXCEPT !.log = Emit(@, Line("INFO", "myApp.views",
                    "All books matching given name", Empty, Empty, Ids(matched)))]

\* Lines 48-49: len(books) runs the query and tests the rows it fetched.
delete_books_by_name_len(c, name) ==
    LET matched == Book_objects_filter(c.books, name)
    IN IF Cardinality(matched) = 0
       THEN [c EXCEPT !.log = Emit(@, Line("ERROR", "myApp.views",
                    "No books with given name found...", Empty, Empty, {}))]
       ELSE c

\* Lines 51-52: books.delete() queries once more, then the one response.
delete_books_by_name_delete(c, name) ==
    [QuerySet_delete(c, name) EXCEPT
        !.response = HttpResponse("All the requested books deleted")]

\* The whole view, nothing else touching the table while it runs.
delete_books_by_name(c, name) ==
    delete_books_by_name_delete(
        delete_books_by_name_len(delete_books_by_name_repr(c, name), name), name)

----------------------------------------------------------------------------
(* formsApp.forms and the form views of formsApp and forms_app *)

ContactNameMaxLength == 100
PersonNameMaxLength == 50
LocationMaxLength == 50
MaxAge == 120

Digits == <<"0","1","2","3","4","5","6","7","8","9">>

is_digit(ch) == \E i \in DOMAIN Digits : Digits[i] = ch

digit_value(ch) == (CHOOSE i \in DOMAIN Digits : Digits[i] = ch) - 1

\* int(value) of IntegerField: an optional sign and decimal digits.
is_int(s) ==
    LET body == IF s # Empty /\ s[1] = "-" THEN Tail(s) ELSE s
    IN body # Empty /\ \A i \in DOMAIN body : is_digit(body[i])

RECURSIVE digits_value(_)
digits_value(s) ==
    IF s = Empty THEN 0
    ELSE 10 * digits_value(SubSeq(s, 1, Len(s) - 1)) + digit_value(s[Len(s)])

to_int(s) == IF s[1] = "-" THEN 0 - digits_value(Tail(s)) ELSE digits_value(s)

\* EmailField: a user part, an @, and a domain of at least two dotted labels.
validate_email(s) ==
    \E at \in DOMAIN s :
        /\ s[at] = "@"
        /\ at > 1
        /\ \A i \in DOMAIN s : (i # at) => s[i] \notin {"@", " "}
        /\ \E dot \in (at + 2)..(Len(s) - 1) : s[dot] = "."
        /\ s[Len(s)] # "." /\ s[at + 1] # "."

Professions == {<<"t","e","s","t","e","r">>, <<"d","e","v">>,
                <<"d","e","v","o","p","s">>, <<"s","m">>}

ContactPost(name, email, message) == [name |-> name, email |-> email, message |-> message]

PersonPost(name, location, age, profession) ==
    [name |-> name, location |-> location, age |-> age, profession |-> profession]

ContactForm_errors(post) ==
    {f \in {"name", "email", "message"} : post[f] = Empty}
    \cup (IF Len(post.name) > ContactNameMaxLength THEN {"name"} ELSE {})
    \cup (IF ~validate_email(post.email) THEN {"email"} ELSE {})

ContactForm(post) == [bound |-> TRUE, errors |-> ContactForm_errors(post)]

PersonForm_errors(post) ==
    {f \in {"name", "location", "age", "profession"} : post[f] = Empty}
    \cup (IF Len(post.name) > PersonNameMaxLength THEN {"name"} ELSE {})
    \cup (IF Len(post.location) > LocationMaxLength THEN {"location"} ELSE {})
    \cup (IF ~is_int(post.age) THEN {"age"}
          ELSE IF to_int(post.age) > MaxAge THEN {"age"} ELSE {})
    \cup (IF post.profession \notin Professions THEN {"profession"} ELSE {})

PersonForm(post) == [bound |-> TRUE, errors |-> PersonForm_errors(post)]

\* formsApp.views.contact_view
formsApp_contact_view(c, method, post) ==
    IF method = "POST"
    THEN LET form == ContactForm(post)
         IN IF form.errors = {}
            THEN [c EXCEPT
                    !.log = Emit(@, Line("INFO", "formsApp.views",
                                "Received form data", post.name, Empty, {})),
                    !.response = render("formsApp/contact_success.html", NoForm, {})]
            ELSE [c EXCEPT !.response = render("formsApp/contact.html", form, {})]
    ELSE [c EXCEPT !.response = render("formsApp/contact.html", NoForm, {})]

\* formsApp.views.person_view
person_view(c, method, post) ==
    IF method = "POST"
    THEN LET form == PersonForm(post)
         IN IF form.errors = {}
            THEN [c EXCEPT
                    !.log = Emit(@, Line("INFO", "formsApp.views",
                                "Form Data Validated", post.name, Empty, {})),
                    !.response = HttpResponse("The form data received and cleaned.")]
            ELSE [c EXCEPT !.response = render("formsApp/person.html", form, {})]
    ELSE [c EXCEPT !.response = render("formsApp/person.html", NoForm, {})]

\* forms_app.forms.ContactForm: the fields contact_view reads from cleaned_data.
forms_app_ContactForm(post) == [bound |-> TRUE, errors |-> ContactForm_errors(post)]

\* forms_app.views.contact_view
forms_app_contact_view(c, method, post) ==
    IF method = "POST"
    THEN LET form == forms_app_ContactForm(post)
         IN IF form.errors = {}
            THEN [c EXCEPT
                    !.log = Emit(@, Line("INFO", "forms_app",
                                "Validated Form Data", post.name, Empty, {})),
                    !.response = HttpResponse("Thank you for your message.")]
            ELSE [c EXCEPT !.response = render("forms_app/contact.html", form, {})]
    ELSE [c EXCEPT !.response = render("forms_app/contact.html", NoForm, {})]

Mail == <<"a","@","b",".","i","o">>
Hello == <<"h","i">>
Pune == <<"P","u","n","e">>

ContactPosts ==
    {ContactPost(Empty, Empty, Empty)} \cup
    {ContactPost(n, e, m) :
        n \in {Herbert, Rep("n", ContactNameMaxLength + 1)},
        e \in {Mail, <<"a","b">>, <<"a","@","b">>},
        m \in {Hello, Empty}}

PersonPosts ==
    {PersonPost(Empty, Empty, Empty, Empty)} \cup
    {PersonPost(n, Pune, a, p) :
        n \in {Herbert, Empty},
        a \in {<<"3","0">>, <<"1","2","0">>, <<"1","2","1">>, <<"x">>},
        p \in {<<"d","e","v">>, <<"c","e","o">>}}

----------------------------------------------------------------------------
(* The requests *)

\* The server's worker threads, each handling one request at a time.
Workers == {"w1", "w2"}

\* A worker that is not inside delete_books_by_name.
Idle == [pc |-> "idle", name |-> Empty, log |-> << >>]

Request(op, method, name, post, instance) ==
    [op |-> op, method |-> method, name |-> name, post |-> post,
     instance |-> instance, before |-> books, saved |-> saved, aux |-> << >>]

Commit(c, req) ==
    /\ UNCHANGED <<project, loggers, inflight>>
    /\ UNCHANGED orm_vars
    /\ books' = c.books
    /\ nextId' = c.nextId
    /\ saved' = c.saved
    /\ submitted' = submitted \cup c.submitted
    /\ log' = c.log
    /\ trace' = c.trace
    /\ response' = c.response
    /\ last' = req

Start == Ctx(books, nextId, saved)

\* GET/POST/... book-list/
GetAllBooksData ==
    \E method \in Methods :
        /\ project = "DjangoSignals"
        /\ Commit(get_all_books_data(Start, method),
               Request("get_all_books_data", method, Empty, NoPost, Book(NoId, Empty, Empty, Empty)))

\* GET/POST/... books/
SaveBook ==
    \E method \in Methods, post \in BookPosts :
        /\ project = "DjangoSignals"
        /\ method # "POST" => post = NoPost
        /\ (method = "POST" /\ BookForm_errors(post) = {}) => nextId <= MaxId
        /\ Commit(save_book(Start, method, post),
                  Request("save_book", method, Empty, post, Book(NoId, Empty, Empty, Empty)))

\* The names asked of delete-books/<str:name>/ : the route takes any
\* non-empty text without a slash.
DeleteNames == {<<"d","a","t","a">>, <<"d","U","N","E">>, <<"z","z">>}

\* History of a delete request: whether the request before it was the same
\* one, and if so the table that earlier request found.
Repeats(name) ==
    LET again == last.op = "delete_books_by_name" /\ last.name = name
    IN [again |-> again, once |-> IF again THEN last.before ELSE {}]

DeleteBooksByName ==
    \E method \in {"GET", "POST"}, name \in DeleteNames :
        /\ project = "DjangoSignals"
        /\ Commit(delete_books_by_name(Start, name),
               [Request("delete_books_by_name", method, name, NoPost,
                        Book(NoId, Empty, Empty, Empty))
                    EXCEPT !.aux = Repeats(name)])

\* POST books/ with a form that validates, as sent while deletes are under way.
SaveBookValid ==
    \E post \in {BookPost(n, Herbert, Sand) : n \in {Dune, DATA}} :
        /\ project = "DjangoSignals"
        /\ nextId <= MaxId
        /\ Commit(save_book(Start, "POST", post),
                  Request("save_book", "POST", Empty, post, Book(NoId, Empty, Empty, Empty)))

\* delete_books_by_name handled by worker w while other workers handle
\* requests of their own: each of its three queries is one step, and each
\* step finds the table as the other workers have left it.
AtWorker(w) == [Start EXCEPT !.log = inflight[w].log]

OnlyInflightChanges ==
    /\ UNCHANGED <<project, loggers, books, nextId, saved, submitted, log, trace,
                   response, last>>
    /\ UNCHANGED orm_vars

\* Lines 45-47 at worker w.
DeleteRepr(w) ==
    \E name \in DeleteNames :
        /\ project = "DjangoSignals"
        /\ inflight[w].pc = "idle"
        /\ inflight' = [inflight EXCEPT ![w] =
                [pc |-> "repr", name |-> name,
                 log |-> delete_books_by_name_repr(AtWorker(w), name).log]]
        /\ OnlyInflightChanges

\* Lines 48-49 at worker w.
DeleteLen(w) ==
    /\ inflight[w].pc = "repr"
    /\ inflight' = [inflight EXCEPT ![w] =
            [@ EXCEPT !.pc = "len",
                      !.log = delete_books_by_name_len(AtWorker(w), inflight[w].name).log]]
    /\ OnlyInflightChanges

\* Lines 51-52 at worker w: the request ends and its lines reach the log.
DeleteDelete(w) ==
    LET name == inflight[w].name
        c == delete_books_by_name_delete(AtWorker(w), name)
    IN /\ inflight[w].pc = "len"
       /\ inflight' = [inflight EXCEPT ![w] = Idle]
       /\ books' = c.books
       /\ nextId' = c.nextId
       /\ saved' = c.saved
       /\ submitted' = submitted \cup c.submitted
       /\ log' = c.log
       /\ trace' = c.trace
       /\ response' = c.response
       /\ last' = [Request("delete_books_by_name", "GET", name, NoPost,
                           Book(NoId, Empty, Empty, Empty))
                       EXCEPT !.aux = [worker |-> w]]
       /\ UNCHANGED <<project, loggers>>
       /\ UNCHANGED orm_vars

\* A save outside the views (shell, admin): a stored Book loaded, changed
\* and saved again, or a new Book saved.
DirectSave ==
    \E id \in Ids(books) \cup {NoId}, n \in {Dune, DATA}, a \in {Herbert, Asimov} :
        LET instance == Book(id, n, a, Sand)
        IN /\ project = "DjangoSignals"
           /\ id = NoId => nextId <= MaxId
           /\ Commit(Book_save(Start, instance),
                     Request("Book.save", "", Empty, NoPost, instance))

\* GET/POST/... "" of formsApp
ContactView ==
    \E method \in Methods, post \in ContactPosts :
        /\ project = "django_forms_project"
        /\ method # "POST" => post = ContactPost(Empty, Empty, Empty)
        /\ Commit(formsApp_contact_view(Start, method, post),
               Request("formsApp.contact_view", method, Empty, post, Book(NoId, Empty, Empty, Empty)))

\* GET/POST/... person/ of formsApp
PersonView ==
    \E method \in Methods, post \in PersonPosts :
        /\ project = "django_forms_project"
        /\ method # "POST" => post = PersonPost(Empty, Empty, Empty, Empty)
        /\ Commit(person_view(Start, method, post),
               Request("person_view", method, Empty, post, Book(NoId, Empty, Empty, Empty)))

\* GET/POST/... the contact form of forms_app
FormsAppContactView ==
    \E method \in Methods, post \in ContactPosts :
        /\ project = "basic_concepts_project"
        /\ method # "POST" => post = ContactPost(Empty, Empty, Empty)
        /\ Commit(forms_app_contact_view(Start, method, post),
               Request("forms_app.contact_view", method, Empty, post, Book(NoId, Empty, Empty, Empty)))

\* The tables the first request may find: rows with keys 1..k written
\* before the handlers were connected, under names of their own.
InitialTables ==
    {t \in SUBSET {Book(i, n, Herbert, Sand) : i \in 1..MaxInit, n \in {Dune, DATA}} :
        /\ \A r1, r2 \in t : r1.id = r2.id => r1 = r2
        /\ \A r \in t : \A j \in 1..r.id : j \in Ids(t)}

----------------------------------------------------------------------------
(* The three setup_logger helpers *)

Projects ==
    {"DjangoSignals", "django_forms_project", "basic_concepts_project",
     "django_orm_project", "admin_interface_project"}

\* The logger names the modules of a project ask for.
LoggerNames(p) ==
    CASE p = "DjangoSignals" -> {"myApp.signals", "myApp.views"}
      [] p = "django_forms_project" -> {"formsApp.views", "formsApp.forms"}
      [] p = "basic_concepts_project" -> {"forms_app", "views_app"}
      [] OTHER -> {}

\* log_file: "" stands for None.
LogFiles == {"", "myapp1.log", "app.log"}

Handler(cls, level, file) == [cls |-> cls, level |-> level, file |-> file]

NoLogger == [made |-> FALSE, level |-> "NOTSET", handlers |-> << >>]

FreshRegistry(p) == [n \in LoggerNames(p) |-> NoLogger]

\* logging.getLogger(name): the logger registered under name, made on first use.
getLogger(reg, name) ==
    IF reg[name].made THEN reg
    ELSE [reg EXCEPT ![name] = [made |-> TRUE, level |-> "NOTSET", handlers |-> << >>]]

\* DjangoSignals/utils/loggers.py
loggers_setup_logger(reg, name) ==
    LET r1 == [getLogger(reg, name) EXCEPT ![name].level = "INFO"]
        ch == Handler("StreamHandler", "NOTSET", "")
    IN IF r1[name].handlers = << >>
       THEN [r1 EXCEPT ![name].handlers = Append(@, ch)]
       ELSE r1

\* basic_concepts_project/utils/logging_utils.py
logging_utils_setup_logger(reg, name, log_file) ==
    LET r1 == [getLogger(reg, name) EXCEPT ![name].level = "INFO"]
        fh == Handler("FileHandler", "INFO", log_file)
        ch == Handler("StreamHandler", "ERROR", "")
    IN IF r1[name].handlers = << >>
       THEN [r1 EXCEPT ![name].handlers = Append(Append(@, fh), ch)]
       ELSE r1

\* django_forms_project/formsApp/utils.py
utils_setup_logger(reg, name, log_file) ==
    LET r1 == [getLogger(reg, name) EXCEPT ![name].level = "INFO"]
        console_handler == Handler("StreamHandler", "NOTSET", "")
        file_handler == Handler("FileHandler", "NOTSET", log_file)
        r2 == [r1 EXCEPT ![name].handlers = Append(@, console_handler)]
    IN IF log_file # ""
       THEN [r2 EXCEPT ![name].handlers = Append(@, file_handler)]
       ELSE r2

\* The registry once the project's modules are imported: each module-level
\* logger = setup_logger(...) has run once.
Imported(p) ==
    CASE p = "DjangoSignals" ->
            loggers_setup_logger(
                loggers_setup_logger(FreshRegistry(p), "myApp.signals"), "myApp.views")
      [] p = "django_forms_project" ->
            utils_setup_logger(FreshRegistry(p), "formsApp.views", "")
      [] p = "basic_concepts_project" ->
            logging_utils_setup_logger(FreshRegistry(p), "forms_app", "myapp1.log")
      [] OTHER -> FreshRegistry(p)

NoBook == Book(NoId, Empty, Empty, Empty)

\* A call of the project's helper; the history keeps the logger as it was.
SetupCall(reg, name, log_file) ==
    /\ loggers' = reg
    /\ last' = [Request("setup_logger", "", Empty, NoPost, NoBook) EXCEPT
                    !.aux = [logger |-> name, log_file |-> log_file, was |-> loggers[name]]]
    /\ UNCHANGED <<project, books, nextId, saved, submitted, log, trace, response,
                   inflight>>
    /\ UNCHANGED orm_vars

LoggersSetupLogger ==
    \E name \in LoggerNames(project) :
        /\ project = "DjangoSignals"
        /\ SetupCall(loggers_setup_logger(loggers, name), name, "")

LoggingUtilsSetupLogger ==
    \E name \in LoggerNames(project), log_file \in LogFiles \ {""} :
        /\ project = "basic_concepts_project"
        /\ SetupCall(logging_utils_setup_logger(loggers, name, log_file), name, log_file)

UtilsSetupLogger ==
    \E name \in LoggerNames(project), log_file \in LogFiles :
        /\ project = "django_forms_project"
        /\ Len(utils_setup_logger(loggers, name, log_file)[name].handlers) <= MaxHandlers
        /\ SetupCall(utils_setup_logger(loggers, name, log_file), name, log_file)

----------------------------------------------------------------------------
(* orm_app.models, formsApp.models, admin_app.models *)

Rowling == <<"J",".","K","."," ","R","o","w","l","i","n","g">>

Author(id, name) == [id |-> id, name |-> name]
OrmBook(id, author) == [id |-> id, title |-> Dune, author |-> author]
Post(id) == [id |-> id, title |-> Hello]
Tag(id, post) == [id |-> id, name |-> Sand, post |-> post]

\* on_delete of Tag.post, of orm_app's Book.author, of formsApp's Book.author.
Tag_post_on_delete_do_nothing == "DO_NOTHING"
Tag_post_on_delete == "CASCADE"
Book_author_on_delete == "CASCADE"
formsApp_Book_author_on_delete == "CASCADE"

AuthorProjects == {"django_orm_project", "django_forms_project"}

on_delete_of_Book(p) ==
    IF p = "django_orm_project" THEN Book_author_on_delete
    ELSE formsApp_Book_author_on_delete

\* The deletion of the parent row with key id: what the collector removes
\* from the parent table and from the table holding the foreign key fk.
Collector_delete(parents, children, fk, id, on_delete) ==
    LET related == {r \in children : r[fk] = id}
    IN CASE on_delete = "CASCADE" ->
                [parents |-> {r \in parents : r.id # id},
                 children |-> children \ related]
         [] on_delete = "PROTECT" ->
                [parents |-> IF related = {} THEN {r \in parents : r.id # id} ELSE parents,
                 children |-> children]
         [] OTHER ->
                [parents |-> {r \in parents : r.id # id},
                 children |-> children]

OrmStep(op, aux) ==
    /\ last' = [Request(op, "", Empty, NoPost, NoBook) EXCEPT !.aux = aux]
    /\ UNCHANGED <<project, loggers, books, nextId, saved, submitted, trace, inflight>>

CreateAuthor ==
    \E name \in {Rowling, Asimov} :
        /\ project \in AuthorProjects
        /\ seq.Author <= MaxParents
        /\ authors' = authors \cup {Author(seq.Author, name)}
        /\ seq' = [seq EXCEPT !.Author = @ + 1]
        /\ log' = << >> /\ response' = None
        /\ UNCHANGED <<orm_books, posts, tags, annotated>>
        /\ OrmStep("Author.create", seq.Author)

\* A Book is stored only under the key of a stored Author: the foreign key
\* constraint refuses any other.
CreateBook ==
    \E author \in 1..MaxParents :
        /\ project \in AuthorProjects
        /\ seq.Book <= MaxChildren
        /\ IF author \in Ids(authors)
           THEN /\ orm_books' = orm_books \cup {OrmBook(seq.Book, author)}
                /\ seq' = [seq EXCEPT !.Book = @ + 1]
           ELSE UNCHANGED <<orm_books, seq>>
        /\ log' = << >> /\ response' = None
        /\ UNCHANGED <<authors, posts, tags, annotated>>
        /\ OrmStep("Book.create", author)

DeleteAuthor ==
    \E id \in 1..MaxParents :
        /\ project \in AuthorProjects
        /\ LET d == Collector_delete(authors, orm_books, "author", id, on_delete_of_Book(project))
           IN authors' = d.parents /\ orm_books' = d.children
        /\ log' = << >> /\ response' = None
        /\ UNCHANGED <<posts, tags, seq, annotated>>
        /\ OrmStep("Author.delete", [id |-> id, parents |-> authors, children |-> orm_books])

DeleteBook ==
    \E id \in 1..MaxChildren :
        /\ project \in AuthorProjects
        /\ orm_books' = {b \in orm_books : b.id # id}
        /\ log' = << >> /\ response' = None
        /\ UNCHANGED <<authors, posts, tags, seq, annotated>>
        /\ OrmStep("Book.delete", id)

CreatePost ==
    /\ project = "admin_interface_project"
    /\ seq.Post <= MaxParents
    /\ posts' = posts \cup {Post(seq.Post)}
    /\ seq' = [seq EXCEPT !.Post = @ + 1]
    /\ log' = << >> /\ response' = None
    /\ UNCHANGED <<authors, orm_books, tags, annotated>>
    /\ OrmStep("Post.create", seq.Post)

CreateTag ==
    \E post \in 1..MaxParents :
        /\ project = "admin_interface_project"
        /\ seq.Tag <= MaxChildren
        /\ IF post \in Ids(posts)
           THEN /\ tags' = tags \cup {Tag(seq.Tag, post)}
                /\ seq' = [seq EXCEPT !.Tag = @ + 1]
           ELSE UNCHANGED <<tags, seq>>
        /\ log' = << >> /\ response' = None
        /\ UNCHANGED <<authors, orm_books, posts, annotated>>
        /\ OrmStep("Tag.create", post)

DeletePost ==
    \E id \in 1..MaxParents :
        /\ project = "admin_interface_project"
        /\ LET d == Collector_delete(posts, tags, "post", id, Tag_post_on_delete)
           IN posts' = d.parents /\ tags' = d.children
        /\ log' = << >> /\ response' = None
        /\ UNCHANGED <<authors, orm_books, seq, annotated>>
        /\ OrmStep("Post.delete", [id |-> id, parents |-> posts, children |-> tags])

DeleteTag ==
    \E id \in 1..MaxChildren :
        /\ project = "admin_interface_project"
        /\ tags' = {t \in tags : t.id # id}
        /\ log' = << >> /\ response' = None
        /\ UNCHANGED <<authors, orm_books, posts, seq, annotated>>
        /\ OrmStep("Tag.delete", id)

----------------------------------------------------------------------------
(* orm_app.views.PracticeQueriesView *)

\* The row a LEFT OUTER JOIN pairs with an Author that has no Book.
NullBook == [id |-> NoId, title |-> Empty, author |-> NoId]

\* Author LEFT OUTER JOIN Book ON book.author_id = author.id
left_join(As, Bs) ==
    {p \in As \X Bs : p[2].author = p[1].id}
    \cup {<<a, NullBook>> : a \in {x \in As : ~ \E b \in Bs : b.author = x.id}}

\* COUNT(*): every joined row of the group, the all-NULL one included.
Count_star(group) == Cardinality(group)

\* Count('book'): COUNT(book.id), which skips the rows whose book is NULL.
Count_book(group) == Cardinality({p \in group : p[2].id # NoId})

\* Author.objects.annotate(book_count=Count('book')): GROUP BY author.id
annotate(As, Bs) ==
    LET joined == left_join(As, Bs)
    IN {[id |-> a.id, name |-> a.name,
         book_count |-> Count_book({p \in joined : p[1] = a})] : a \in As}

Response(body, status) ==
    [kind |-> "Response", status |-> status, body |-> body,
     template |-> "", form |-> NoForm, rows |-> {}]

\* Author.objects.get(name=...) raises unless exactly one row matches; the
\* exception leaves the view and the request is answered 500.
ServerError(exception) ==
    [kind |-> "Exception", status |-> 500, body |-> exception,
     template |-> "", form |-> NoForm, rows |-> {}]

RECURSIVE title_lines(_, _, _)
title_lines(rows, i, lg) ==
    IF i > Len(rows) THEN lg
    ELSE title_lines(rows, i + 1,
            Emit(lg, Line("INFO", "orm_app.views", "title", rows[i].title, Empty, {})))

\* PracticeQueriesView.get: [response, log, annotated]
PracticeQueriesView_get(As, Bs, old) ==
    LET found == {a \in As : a.name = Rowling}
    IN IF found = {}
       THEN [response |-> ServerError("DoesNotExist"), log |-> << >>, annotated |-> old]
       ELSE IF Cardinality(found) > 1
       THEN [response |-> ServerError("MultipleObjectsReturned"), log |-> << >>,
             annotated |-> old]
       ELSE LET author == CHOOSE a \in found : TRUE
                all_books == ById({b \in Bs : b.author = author.id})
                l1 == Emit(<< >>, Line("INFO", "orm_app.views",
                            "Showing titel of the all retrieved books: ", Empty, Empty, {}))
                l2 == title_lines(all_books, 1, l1)
                l3 == Emit(l2, Line("INFO", "orm_app.views",
                            "Author query set after annotation", Empty, Empty, Ids(As)))
                l4 == Emit(l3, Line("INFO", "orm_app.views",
                            "Annotated author Queries after conversion to dictionary",
                            Empty, Empty, Ids(As)))
            IN [response |-> Response("Connection to api is established", 200),
                log |-> l4, annotated |-> annotate(As, Bs)]

PracticeQueries ==
    /\ project = "django_orm_project"
    /\ LET r == PracticeQueriesView_get(authors, orm_books, annotated)
       IN /\ response' = r.response
          /\ log' = r.log
          /\ annotated' = r.annotated
    /\ UNCHANGED <<authors, orm_books, posts, tags, seq>>
    /\ OrmStep("PracticeQueriesView.get", [id |-> NoId, parents |-> authors, children |-> orm_books])

----------------------------------------------------------------------------
(* Specifications *)

InitCommon ==
    /\ authors = {} /\ orm_books = {} /\ posts = {} /\ tags = {}
    /\ seq = [Author |-> 1, Book |-> 1, Post |-> 1, Tag |-> 1]
    /\ annotated = {}
    /\ nextId = Cardinality(books) + 1
    /\ saved = {}
    /\ submitted = {}
    /\ inflight = [w \in Workers |-> Idle]
    /\ log = << >>
    /\ trace = << >>
    /\ response = None
    /\ last = Request("", "", Empty, NoPost, NoBook)

\* A server of one of the projects with views, its modules imported.
Init ==
    /\ project \in {"DjangoSignals", "django_forms_project", "basic_concepts_project"}
    /\ loggers = Imported(project)
    /\ books \in (IF project = "DjangoSignals" THEN InitialTables ELSE {{}})
    /\ InitCommon

Next ==
    \/ GetAllBooksData
    \/ SaveBook
    \/ DeleteBooksByName
    \/ DirectSave
    \/ ContactView
    \/ PersonView
    \/ FormsAppContactView

Spec == Init /\ [][Next]_vars

\* The DjangoSignals server with two workers: delete requests advance query
\* by query, save_book requests run in between.
InitConcurrent ==
    /\ project = "DjangoSignals"
    /\ loggers = Imported(project)
    /\ books \in InitialTables
    /\ InitCommon

NextConcurrent ==
    \/ \E w \in Workers : DeleteRepr(w)
    \/ \E w \in Workers : DeleteLen(w)
    \/ \E w \in Workers : DeleteDelete(w)
    \/ SaveBookValid

SpecConcurrent == InitConcurrent /\ [][NextConcurrent]_vars

\* A process of a project with a setup_logger helper, nothing imported yet.
InitLoggers ==
    /\ project \in {"DjangoSignals", "django_forms_project", "basic_concepts_project"}
    /\ loggers = FreshRegistry(project)
    /\ books = {}
    /\ InitCommon

NextLoggers ==
    \/ LoggersSetupLogger
    \/ LoggingUtilsSetupLogger
    \/ UtilsSetupLogger

SpecLoggers == InitLoggers /\ [][NextLoggers]_vars

\* A process of a project with related tables, the tables empty.
InitOrm ==
    /\ project \in {"django_orm_project", "django_forms_project", "admin_interface_project"}
    /\ loggers = FreshRegistry(project)
    /\ books = {}
    /\ InitCommon

NextOrm ==
    \/ CreateAuthor
    \/ CreateBook
    \/ DeleteAuthor
    \/ DeleteBook
    \/ CreatePost
    \/ CreateTag
    \/ DeletePost
    \/ DeleteTag
    \/ PracticeQueries

SpecOrm == InitOrm /\ [][NextOrm]_vars

----------------------------------------------------------------------------
(* Properties of the DjangoSignals app *)

\* The lines of the last request's log that carry message m.
Count(m) == Cardinality({i \in DOMAIN log : log[i].msg = m})

\* Two characters equal up to the case of a letter.
SameLetter(a, b) ==
    \/ a = b
    \/ \E i \in DOMAIN UpperCase :
          \/ (a = UpperCase[i] /\ b = LowerCase[i])
          \/ (a = LowerCase[i] /\ b = UpperCase[i])

\* s occurs in name, ignoring case.
NameHas(name, s) ==
    \E k \in 0..(Len(name) - Len(s)) :
        \A j \in 1..Len(s) : SameLetter(name[k + j], s[j])

LastIsSave ==
    \/ last.op = "Book.save"
    \/ (last.op = "save_book" /\ last.method = "POST" /\ BookForm_errors(last.post) = {})

LastIsDelete == last.op = "delete_books_by_name"

\* C1: every row written by a save, whether it created or updated the row,
\* holds the name "Corrupted Data", whatever name the caller gave.
C1_SavedNameIsCorruptedData ==
    /\ \A r \in books : r.id \in saved => r.name = CorruptedData
    /\ LastIsSave =>
          /\ \E i \in DOMAIN trace : trace[i].ev \in {"INSERT", "UPDATE"}
          /\ \A i \in DOMAIN trace : trace[i].ev \in {"INSERT", "UPDATE"} =>
                \E r \in books : r.id = trace[i].id /\ r.name = CorruptedData

\* A POST of name "Dune" has stored a new row named "Corrupted Data".
C1_Witness ==
    /\ last.op = "save_book" /\ last.method = "POST"
    /\ last.post.name = Dune
    /\ \E r \in books : r.id \notin Ids(last.before) /\ r.id \in saved
                        /\ r.name = CorruptedData

\* C2: a delete request whose name matches at least one stored Book removes
\* all and only the Books whose name contains it ignoring case; the other
\* rows stay as they were.
C2_DeleteRemovesAllAndOnlyMatches ==
    (LastIsDelete /\ \E r \in last.before : NameHas(r.name, last.name)) =>
        /\ books = {r \in last.before : ~NameHas(r.name, last.name)}
        /\ \A r \in books : ~NameHas(r.name, last.name)

\* "data" removed a row named "DATA" and left a row named "Dune".
C2_Witness ==
    /\ LastIsDelete
    /\ last.name = <<"d","a","t","a">>
    /\ \E r \in last.before : r.name = DATA /\ r \notin books
    /\ \E r \in last.before : r.name = Dune /\ r \in books

\* C3: a delete request that matches nothing leaves the table as it was and
\* logs an error line, and every delete request, matching or not, is
\* answered 200 "All the requested books deleted".
C3_NoMatchSameResponse ==
    LastIsDelete =>
        /\ response = HttpResponse("All the requested books deleted")
        /\ response.status = 200
        /\ (~ \E r \in last.before : NameHas(r.name, last.name)) =>
              /\ books = last.before
              /\ \E i \in DOMAIN log :
                    /\ log[i].level = "ERROR"
                    /\ log[i].msg = "No books with given name found..."

\* A delete request found rows but none under the name asked.
C3_Witness ==
    /\ LastIsDelete
    /\ last.before # {}
    /\ ~ \E r \in last.before : NameHas(r.name, last.name)
    /\ books = last.before
    /\ Count("No books with given name found...") = 1

\* C4: a valid POST to save_book is answered "FORM DATA SAVED" and adds
\* exactly one row, whose author and detail are the submitted ones; the rows
\* stored before are untouched.
C4_ValidPostPersistsAuthorAndDetail ==
    (last.op = "save_book" /\ last.method = "POST" /\ BookForm_errors(last.post) = {}) =>
        /\ response = HttpResponse("FORM DATA SAVED")
        /\ last.before \subseteq books
        /\ Cardinality(books \ last.before) = 1
        /\ \A r \in books \ last.before :
              /\ r.id \notin Ids(last.before)
              /\ r.author = last.post.author
              /\ r.detail = last.post.detail

\* A valid POST by Herbert with detail "sand" has stored its row.
C4_Witness ==
    /\ last.op = "save_book" /\ last.method = "POST"
    /\ BookForm_errors(last.post) = {}
    /\ last.before # {}
    /\ \E r \in books \ last.before : r.author = Herbert /\ r.detail = Sand

\* C5: a save runs update_information, then the row write, then
\* information_message, once each; the post-save handler logs "New Book Added"
\* exactly when the row is new and "New Book Updated" exactly when it was stored.
C5_SaveHookOrder ==
    LastIsSave =>
        /\ Len(trace) = 3
        /\ trace[1].ev = "update_information"
        /\ trace[2].ev \in {"INSERT", "UPDATE"}
        /\ trace[3].ev = "information_message"
        /\ trace[3].id = trace[2].id
        /\ LET new == trace[2].id \notin Ids(last.before)
           IN /\ trace[2].ev = (IF new THEN "INSERT" ELSE "UPDATE")
              /\ Count("New Book Added") = (IF new THEN 1 ELSE 0)
              /\ Count("New Book Updated") = (IF new THEN 0 ELSE 1)

\* A stored Book was saved again and the handler logged the update.
C5_Witness ==
    /\ last.op = "Book.save"
    /\ last.instance.id \in Ids(last.before)
    /\ Count("New Book Updated") = 1
    /\ Count("New Book Added") = 0

\* The rows the last request removed.
Removed == last.before \ books

\* The positions of the trace holding event ev for key id.
At(ev, id) == {i \in DOMAIN trace : trace[i].ev = ev /\ trace[i].id = id}

\* C6: for every Book a delete request removes, pre_delete_signal runs once,
\* before the row goes, and logs one warning carrying that Book's name; a
\* request that matches nothing logs no such warning.
C6_PreDeleteWarnsOncePerBook ==
    LastIsDelete =>
        /\ \A r \in Removed :
              /\ Cardinality(At("pre_delete_signal", r.id)) = 1
              /\ Cardinality(At("DELETE", r.id)) = 1
              /\ \A i \in At("pre_delete_signal", r.id), j \in At("DELETE", r.id) : i < j
        /\ \A i \in DOMAIN trace : trace[i].id \in Ids(Removed)
        /\ \A n \in {r.name : r \in last.before} \cup {Empty} :
              Cardinality({i \in DOMAIN log : log[i].level = "WARNING" /\ log[i].name = n})
                = Cardinality({r \in Removed : r.name = n})
        /\ Cardinality({i \in DOMAIN log : log[i].level = "WARNING"}) = Cardinality(Removed)

\* One request removed two Books of different names.
C6_Witness ==
    /\ LastIsDelete
    /\ \E r1, r2 \in Removed : r1.name = DATA /\ r2.name = CorruptedData
    /\ Cardinality({i \in DOMAIN log : log[i].level = "WARNING"}) = 2

----------------------------------------------------------------------------
(* Properties of the form views *)

\* The errors of the form the last request bound.
LastFormErrors ==
    CASE last.op = "save_book" -> BookForm_errors(last.post)
      [] last.op = "formsApp.contact_view" -> ContactForm_errors(last.post)
      [] last.op = "forms_app.contact_view" -> ContactForm_errors(last.post)
      [] last.op = "person_view" -> PersonForm_errors(last.post)
      [] OTHER -> {}

LastFormTemplate ==
    CASE last.op = "save_book" -> "myApp/book.html"
      [] last.op = "formsApp.contact_view" -> "formsApp/contact.html"
      [] last.op = "forms_app.contact_view" -> "forms_app/contact.html"
      [] last.op = "person_view" -> "formsApp/person.html"
      [] OTHER -> ""

\* C7: a POST whose form fails validation is answered by the form template
\* rendered with the bound form and its errors, stores nothing and runs no
\* save handler.
C7_InvalidPostRerendersForm ==
    (last.method = "POST" /\ LastFormErrors # {}) =>
        /\ response = render(LastFormTemplate, [bound |-> TRUE, errors |-> LastFormErrors], {})
        /\ response.kind # "HttpResponse"
        /\ books = last.before
        /\ trace = << >>
        /\ log = << >>

\* A POST to save_book with an over-long author and no detail was turned back.
C7_Witness ==
    /\ last.op = "save_book" /\ last.method = "POST"
    /\ last.post.name = Dune
    /\ response.form.errors = {"author", "detail"}
    /\ books = last.before

----------------------------------------------------------------------------
(* Properties of the setup_logger helpers *)

\* C8: a call of setup_logger for a name that already has its logger leaves
\* that logger's handlers as they were, in each of the three helpers.
C8_SetupLoggerAddsNoHandlerAgain ==
    (last.op = "setup_logger" /\ last.aux.was.made) =>
        /\ loggers[last.aux.logger].made
        /\ loggers[last.aux.logger].handlers = last.aux.was.handlers

----------------------------------------------------------------------------
(* Properties of the related tables *)

\* The Books stored under the Author with key id.
BooksOf(id) == {b \in orm_books : b.author = id}

\* C9: the annotation gives every Author the number of Book rows stored
\* under it, 0 included, and the view leaves both tables as it found them.
C9_BookCountPerAuthor ==
    last.op = "PracticeQueriesView.get" =>
        /\ authors = last.aux.parents
        /\ orm_books = last.aux.children
        /\ response.status = 200 =>
              /\ {r.id : r \in annotated} = Ids(authors)
              /\ Cardinality(annotated) = Cardinality(authors)
              /\ \A r \in annotated : r.book_count = Cardinality(BooksOf(r.id))

\* The query counted 3 for an Author with three Books and 0 for one with none.
C9_Witness ==
    /\ last.op = "PracticeQueriesView.get"
    /\ response.status = 200
    /\ \E r \in annotated : r.book_count = 3 /\ r.name = Rowling
    /\ \E r \in annotated : r.book_count = 0

\* C10: every Tag refers to a stored Post and every Book to a stored Author;
\* deleting a Post removes it with all and only its Tags, deleting an Author
\* removes it with all and only its Books.
C10_CascadeKeepsReferences ==
    /\ \A t \in tags : t.post \in Ids(posts)
    /\ \A b \in orm_books : b.author \in Ids(authors)
    /\ last.op = "Post.delete" =>
          /\ posts = {p \in last.aux.parents : p.id # last.aux.id}
          /\ tags = {t \in last.aux.children : t.post # last.aux.id}
    /\ last.op = "Author.delete" =>
          /\ authors = {a \in last.aux.parents : a.id # last.aux.id}
          /\ orm_books = {b \in last.aux.children : b.author # last.aux.id}

\* A Post went with its two Tags while another Post kept its own.
C10_Witness ==
    /\ last.op = "Post.delete"
    /\ Cardinality({t \in last.aux.children : t.post = last.aux.id}) = 2
    /\ last.aux.id \notin Ids(posts)
    /\ Cardinality(tags) = 1

----------------------------------------------------------------------------
(* Deleting from a table that only saves have written *)

\* Every row the last request found had been written by Model.save.
FoundOnlySavedBooks == Ids(last.before) \subseteq last.saved

\* C11: when every stored Book was written through a save, a
\* delete_books_by_name request removes the whole table if the requested name
\* occurs, ignoring case, in "Corrupted Data", and removes nothing otherwise;
\* a request that names what a caller once submitted removes a row only if
\* that name occurs in "Corrupted Data" too.
C11_DeleteIsAllOrNothing ==
    (LastIsDelete /\ FoundOnlySavedBooks) =>
        /\ IF NameHas(CorruptedData, last.name)
           THEN books = {}
           ELSE books = last.before
        /\ \A n \in submitted :
              (NameHas(n, last.name) /\ Removed # {})
                  => NameHas(CorruptedData, last.name)

\* Two Books, both written by saves, one of them submitted as "Dune", went
\* with one request whose name occurs in "Corrupted Data".
C11_Witness ==
    /\ LastIsDelete
    /\ FoundOnlySavedBooks
    /\ Cardinality(last.before) >= 2
    /\ Dune \in submitted
    /\ NameHas(CorruptedData, last.name)
    /\ books = {}

\* Books submitted as "Dune" and saved stayed when "dUNE" was requested.
C11_WitnessKept ==
    /\ LastIsDelete
    /\ FoundOnlySavedBooks
    /\ last.before # {}
    /\ submitted = {Dune}
    /\ NameHas(Dune, last.name)
    /\ books = last.before

----------------------------------------------------------------------------
(* The same delete request twice in a row *)

NoMatchError == "No books with given name found..."

\* C12: when a delete_books_by_name request directly follows one for the same
\* name, it removes nothing, leaving the table as the first request left it,
\* and logs the no-match error once; this for every name and every table.
C12_DeleteTwiceIsDeleteOnce ==
    (LastIsDelete /\ last.aux.again) =>
        /\ books = last.before
        /\ books = {r \in last.aux.once : ~NameHas(r.name, last.name)}
        /\ \A i \in DOMAIN trace : trace[i].ev # "DELETE"
        /\ Count(NoMatchError) = 1

\* The first request removed a Book and kept another; the second, for the
\* same name, found the kept one only and left it.
C12_Witness ==
    /\ LastIsDelete
    /\ last.aux.again
    /\ last.aux.once # last.before
    /\ last.before # {}
    /\ books = last.before
    /\ Count(NoMatchError) = 1

----------------------------------------------------------------------------
(* What the routed views return *)

RoutedViews == {"get_all_books_data", "save_book", "delete_books_by_name"}

\* C13: each of the three views routed in myApp/urls.py ends every request,
\* whatever its method, by returning a response object and never by
\* returning nothing.
C13_EveryViewReturnsAResponse ==
    last.op \in RoutedViews => response.kind # "None"

----------------------------------------------------------------------------
(* delete_books_by_name among concurrent requests *)

\* The keys the finished delete request logged as matching.
LoggedAsMatching ==
    UNION {log[i].ids : i \in {j \in DOMAIN log : log[j].msg = "All books matching given name"}}

\* C14: when a delete_books_by_name request ends, whatever other requests
\* ran between its steps, the Books it removed are the Books it logged as
\* matching, and it logged the no-match error exactly when it removed none.
C14_LoggedMatchIsWhatIsDeleted ==
    LastIsDelete =>
        /\ Ids(Removed) = LoggedAsMatching
        /\ Count(NoMatchError) = 1 <=> Removed = {}

====
